---------------------------- MODULE Spec2Model ----------------------------
(***************************************************************************)
(* Model of ins_file_tool (src/src/ins_file_tool.c): the Insta360 trailer  *)
(* reader and stitching-offset rewriter.  A run of the tool is a           *)
(* sequential state machine: pc is the position in main / run_show_info /  *)
(* run_change_stitching_offset, the other variables are the locals of      *)
(* these functions, the two files and the heap blocks they own.            *)
(* Bytes are 0..255, buffers are sequences of bytes addressed from 0 as in *)
(* the C code (buffer offset k is element k+1 of the sequence).            *)
(***************************************************************************)
EXTENDS Integers, Sequences, FiniteSets, TLC

(***************************************************************************)
(* Program constants                                                       *)
(***************************************************************************)
kInsFileSignature ==
    << 56, 100, 98, 52, 50, 100, 54, 57, 52, 99, 99, 99, 52, 49, 56, 55,
       57, 48, 101, 100, 102, 102, 52, 51, 57, 102, 101, 48, 50, 54, 98, 102 >>

kInsFileSignatureLength == 32

kInsFileMinHeaderLength == kInsFileSignatureLength + 40

kCopyBufferSize == 8 * 1024

\* sizeof(InsFileTrailerEntryHeaderType): uint16 type + uint32 length, packed
SizeofEntryHeader == 2 + 4

\* sizeof(InsFileTrailerHeaderType): uint32 trailer_len + uint32 trailer_version
SizeofTrailerHeader == 4 + 4

\* sizeof(InsFileSpecificDataTagHeaderType): uint8 type_code + uint8 data_size
SizeofTagHeader == 1 + 1

kMaxTagsCount == 4

kInsFileSpecificHeaderTagTypeOffset == 42

\* entry type 0x0101, the case label of both switch statements
kSpecificEntryType == 257

(***************************************************************************)
(* 32-bit unsigned values (uint32_t fields and the cursor of the entry     *)
(* walk) are pairs << high 16 bits, low 16 bits >>, with the arithmetic    *)
(* modulo 2^32 of the C type.                                              *)
(***************************************************************************)
Half == 256 * 256

\* the uint32_t with value n, 0 <= n < 2^31
U32(n) == << n \div Half, n % Half >>

U32Max == << Half - 1, Half - 1 >>

U32Add(a, b) ==
    LET lo == a[2] + b[2]
        hi == a[1] + b[1] + (lo \div Half)
    IN  << hi % Half, lo % Half >>

U32Sub(a, b) ==
    LET lo == a[2] - b[2]
        hi == a[1] - b[1] - (IF lo < 0 THEN 1 ELSE 0)
    IN  << (hi + Half) % Half, (lo + Half) % Half >>

U32Lt(a, b) == a[1] < b[1] \/ (a[1] = b[1] /\ a[2] < b[2])

\* the value as an integer, when it is below 2^31
Fits(a) == a[1] < Half \div 2

Val(a) == a[1] * Half + a[2]

\* conversion uint32_t -> int32_t / int (two's complement)
AsInt32(a) == (IF Fits(a) THEN a[1] ELSE a[1] - Half) * Half + a[2]

\* conversion int -> uint32_t
FromInt32(n) ==
    LET lo == ((n % Half) + Half) % Half
    IN  << ((((n - lo) \div Half) % Half) + Half) % Half, lo >>

(***************************************************************************)
(* Byte buffers                                                            *)
(***************************************************************************)
Min(a, b) == IF a < b THEN a ELSE b

Max(a, b) == IF a < b THEN b ELSE a

Zeros(n) == [k \in 1..n |-> 0]

\* the byte at C offset off of buf; g is what a read outside the buffer yields
Rd(buf, off, g) == IF off >= 0 /\ off < Len(buf) THEN buf[off + 1] ELSE g

\* n bytes from C offset off (memcpy / fwrite source)
RdBytes(buf, off, n, g) == [k \in 1..n |-> Rd(buf, off + k - 1, g)]

\* whether the n bytes at offset off lie inside buf
InBuf(buf, off, n) == n <= 0 \/ (off >= 0 /\ off + n <= Len(buf))

\* little-endian fields, as the packed structs are laid over the bytes
LE16(buf, off, g) == Rd(buf, off, g) + 256 * Rd(buf, off + 1, g)

LE32(buf, off, g) == << LE16(buf, off + 2, g), LE16(buf, off, g) >>

Enc16(v) == << v % 256, (v \div 256) % 256 >>

Enc32(v) == Enc16(v[2]) \o Enc16(v[1])

(***************************************************************************)
(* ins_decode_trailer_specific_header.  hdr_data is buf + base; the result *)
(* holds the return value, the pushed elements, the tail and, for the      *)
(* bounds claims, the offsets at which a tag header was read.              *)
(***************************************************************************)
RECURSIVE DecodeTagLoop(_, _, _, _, _, _, _, _, _)
DecodeTagLoop(buf, base, hdr_size, g, i, position, bytes_left, elems, reads) ==
    IF i >= kMaxTagsCount
    THEN [ret |-> Len(elems), elems |-> elems, tail_pos |-> position,
          tail_size |-> bytes_left, hdr_reads |-> reads]
    ELSE LET type_code == Rd(buf, base + position, g)
             data_size == Rd(buf, base + position + 1, g)
             position1 == position + SizeofTagHeader
             reads1    == Append(reads, position)
         IN  IF data_size > bytes_left
             THEN [ret |-> -1, elems |-> elems, tail_pos |-> position1,
                   tail_size |-> bytes_left, hdr_reads |-> reads1]
             ELSE LET elem == [hdr_offset |-> position, type_code |-> type_code,
                               data_size |-> data_size, data |-> position1]
                      position2 == position1 + data_size
                      left2     == hdr_size - position2
                      elems2    == Append(elems, elem)
                  IN  IF position2 >= hdr_size
                      THEN [ret |-> Len(elems2), elems |-> elems2,
                            tail_pos |-> position2, tail_size |-> left2,
                            hdr_reads |-> reads1]
                      ELSE DecodeTagLoop(buf, base, hdr_size, g, i + 1,
                                         position2, left2, elems2, reads1)

ins_decode_trailer_specific_header(buf, base, hdr_size, g) ==
    DecodeTagLoop(buf, base, hdr_size, g, 0, 0, hdr_size - 0, << >>, << >>)

(***************************************************************************)
(* ins_change_stitching_offset.  The new buffer is malloc(new_header_size) *)
(* zeroed by memset; written is what the two loops and the insertion block *)
(* store from offset 0 on, followed by the tail copy.  A store past the    *)
(* allocation is a heap overflow (overflow), a negative tail_size reaches  *)
(* memcpy as a huge size_t (neg_tail): both are undefined behaviour, which *)
(* the caller's action resolves.  out is the content of the allocation.    *)
(***************************************************************************)
RECURSIVE FirstOffsetSize(_, _)
FirstOffsetSize(elems, i) ==
    IF i > Len(elems) THEN 0
    ELSE IF elems[i].type_code = kInsFileSpecificHeaderTagTypeOffset
         THEN elems[i].data_size
         ELSE FirstOffsetSize(elems, i + 1)

\* one iteration of the rebuild loop: the tag header and value it stores
EmitTag(elem, buf, base, new_offset, g) ==
    IF elem.type_code = kInsFileSpecificHeaderTagTypeOffset
    THEN << elem.type_code, Len(new_offset) % 256 >> \o new_offset
    ELSE << elem.type_code, elem.data_size >>
           \o RdBytes(buf, base + elem.data, elem.data_size, g)

RECURSIVE EmitTags(_, _, _, _, _, _)
EmitTags(elems, i, buf, base, new_offset, g) ==
    IF i > Len(elems) THEN << >>
    ELSE EmitTag(elems[i], buf, base, new_offset, g)
           \o EmitTags(elems, i + 1, buf, base, new_offset, g)

\* the block "file did not contain stitching offset parameter - add it"
InsertedTag(stitching_offset_current_size, new_offset) ==
    IF stitching_offset_current_size = 0
    THEN << kInsFileSpecificHeaderTagTypeOffset, Len(new_offset) % 256 >> \o new_offset
    ELSE << >>

\* int new_header_size = in_trailer_hdr_size - stitching_offset_current_size + new_offset_size
NewHeaderSize(in_trailer_hdr_size, stitching_offset_current_size, new_offset_size) ==
    in_trailer_hdr_size - stitching_offset_current_size + new_offset_size

ins_change_stitching_offset(buf, base, in_trailer_hdr_size, new_offset, g) ==
    LET dec == ins_decode_trailer_specific_header(buf, base, in_trailer_hdr_size, g)
    IN  IF dec.ret < 0
        THEN [ret |-> -3, out |-> << >>, size |-> 0, overflow |-> FALSE,
              neg_tail |-> FALSE, pos |-> 0, cur |-> 0, dec |-> dec]
        ELSE LET cur      == FirstOffsetSize(dec.elems, 1)
                 new_size == NewHeaderSize(in_trailer_hdr_size, cur, Len(new_offset))
                 tags     == EmitTags(dec.elems, 1, buf, base, new_offset, g)
                               \o InsertedTag(cur, new_offset)
                 tail     == IF dec.tail_size < 0 THEN << >>
                             ELSE RdBytes(buf, base + dec.tail_pos, dec.tail_size, g)
                 written  == tags \o tail
             IN  [ret |-> 0,
                  out |-> [k \in 1..new_size |->
                              IF k <= Len(written) THEN written[k] ELSE 0],
                  size |-> new_size,
                  overflow |-> Len(written) > new_size,
                  neg_tail |-> dec.tail_size < 0,
                  pos |-> Len(tags),
                  cur |-> cur,
                  dec |-> dec]

(***************************************************************************)
(* Files.  An input file is media payload followed by tail bytes; the      *)
(* media payload is opaque, so it is kept as its length and byte p of it   *)
(* is MediaByte(p), which lets a file be larger than one copy buffer       *)
(* without the state holding each byte.  What the copy loop has written to *)
(* the output is kept as the ranges of input positions it copied (adjacent *)
(* ranges joined), what the rebuild has written as bytes.                  *)
(***************************************************************************)
MediaByte(p) == (p * 7 + 3) % 256

FileSize(f) == f.media + Len(f.tail)

FileByte(f, p) == IF p < f.media THEN MediaByte(p) ELSE f.tail[p - f.media + 1]

\* fread of n bytes at position pos: short at end of file
FileRead(f, pos, n) ==
    LET got == IF pos >= FileSize(f) THEN 0 ELSE Min(n, FileSize(f) - pos)
    IN  [k \in 1..got |-> FileByte(f, pos + k - 1)]

\* how many bytes fread of n bytes at pos returns
FileReadCount(f, pos, n) ==
    IF pos < 0 \/ pos >= FileSize(f) THEN 0 ELSE Min(n, FileSize(f) - pos)

AppendRange(ranges, from, n) ==
    IF n = 0 THEN ranges
    ELSE IF Len(ranges) > 0 /\ ranges[Len(ranges)].from + ranges[Len(ranges)].len = from
         THEN [ranges EXCEPT ![Len(ranges)].len = @ + n]
         ELSE Append(ranges, [from |-> from, len |-> n])

(***************************************************************************)
(* The file layout (the comment "Trailer structure" and the packed         *)
(* structs), used to build the input files of the model.                   *)
(***************************************************************************)
Tag(type_code, value) == << type_code, Len(value) >> \o value

Entry(type, payload) == payload \o Enc16(type) \o Enc32(U32(Len(payload)))

RECURSIVE Concat(_)
Concat(ss) == IF Len(ss) = 0 THEN << >> ELSE Head(ss) \o Concat(Tail(ss))

\* entries (in file order), 32 bytes of padding, the trailer header, the signature
TrailerBytes(entries, padding, trailer_len, trailer_version, signature) ==
    Concat(entries) \o padding \o Enc32(trailer_len) \o Enc32(trailer_version)
      \o signature

TrueTrailerLen(entries) == Len(Concat(entries)) + kInsFileMinHeaderLength

\* int zero_padding_size in run_change_stitching_offset
zero_padding_size ==
    kInsFileMinHeaderLength - kInsFileSignatureLength - SizeofTrailerHeader

\* a well-formed file: media, entries, zero padding, exact trailer_len
GoodFile(media, entries) ==
    [media |-> media,
     tail  |-> TrailerBytes(entries, Zeros(zero_padding_size), U32(TrueTrailerLen(entries)), U32(3),
                            kInsFileSignature)]

(***************************************************************************)
(* Bounds of the model and the inputs of a run.  An input is the command   *)
(* line (argc, mode, new offset string), the input file and how many I/O   *)
(* calls the environment may fail during the run.                          *)
(***************************************************************************)
MaxPayloadLen == 4

MaxEntries == 2

MaxChunks == 2

MaxOffsetLen == 256

MaxFaults == 1

\* vector elements after which realloc fails (see DecodeExhaust)
MaxVector == MaxEntries + 4

SeqsUpTo(S, n) == UNION { [1..k -> S] : k \in 0..n }

PayloadAlphabet == {0, 1, 2, kInsFileSpecificHeaderTagTypeOffset}

\* the usual layout: serial, model, firmware, offset, then the tail
StdPayload ==
    Tag(10, <<83>>) \o Tag(18, <<77>>) \o Tag(26, <<70>>)
      \o Tag(kInsFileSpecificHeaderTagTypeOffset, <<97, 98>>) \o <<72, 1>>

CraftedPayloads ==
    { StdPayload,
      \* four tags, none the offset, then a tail
      Tag(10, <<83>>) \o Tag(18, <<77>>) \o Tag(26, <<70>>) \o Tag(50, <<9>>) \o <<72, 1>>,
      \* four tags, none the offset; the tail starts with an offset-shaped record
      Tag(10, <<83>>) \o Tag(18, <<77>>) \o Tag(26, <<70>>) \o Tag(50, <<9>>)
        \o Tag(kInsFileSpecificHeaderTagTypeOffset, <<97, 98>>),
      \* two offset tags of different sizes
      Tag(10, <<83>>) \o Tag(kInsFileSpecificHeaderTagTypeOffset, <<97, 98>>)
        \o Tag(kInsFileSpecificHeaderTagTypeOffset, <<120>>) \o Tag(26, <<70>>) \o <<72, 1>>,
      \* two offset tags of the same size
      Tag(10, <<83>>) \o Tag(kInsFileSpecificHeaderTagTypeOffset, <<97, 98>>)
        \o Tag(kInsFileSpecificHeaderTagTypeOffset, <<99, 100>>) \o Tag(26, <<70>>) \o <<72, 1>>,
      \* an offset tag with an empty value
      Tag(10, <<83>>) \o Tag(18, <<77>>) \o Tag(26, <<70>>)
        \o Tag(kInsFileSpecificHeaderTagTypeOffset, << >>) \o <<72, 1>>,
      \* the offset tag first, no tail
      Tag(kInsFileSpecificHeaderTagTypeOffset, <<97, 98>>) \o Tag(10, <<83>>)
        \o Tag(18, <<77>>) \o Tag(26, <<70>>),
      \* the last tag's data_size runs two bytes past the payload
      Tag(10, <<83>>) \o Tag(18, <<77>>) \o Tag(26, <<70>>) \o <<50, 4, 9, 9>> }

LongOffset(n) == [k \in 1..n |-> 120]

SmallOffsets == { << >>, <<1>>, <<2, kInsFileSpecificHeaderTagTypeOffset>> }

CraftedOffsets ==
    { << >>, <<97, 98>>, <<120>>, LongOffset(MaxOffsetLen - 1), LongOffset(MaxOffsetLen) }

EntryKinds ==
    { Entry(kSpecificEntryType, StdPayload), Entry(512, <<7, 8, 9>>), Entry(768, << >>) }

EntryLists == SeqsUpTo(EntryKinds, MaxEntries)

Input(argc, mode, file, new_offset, faults) ==
    [argc |-> argc, mode |-> mode, file |-> file, new_offset |-> new_offset,
     faults |-> faults]

\* every payload over the alphabet as the one specific-info entry, rewritten
PayloadInputs ==
    { Input(5, "-c", GoodFile(3, << Entry(kSpecificEntryType, p) >>), x, 0) :
        p \in SeqsUpTo(PayloadAlphabet, MaxPayloadLen), x \in SmallOffsets }

CraftedInputs ==
    { Input(5, "-c", GoodFile(3, << Entry(512, <<7>>), Entry(kSpecificEntryType, p) >>), x, 0) :
        p \in CraftedPayloads, x \in CraftedOffsets }
    \cup
    \* two specific-info entries that differ in the serial tag
    { Input(5, "-c",
            GoodFile(3, << Entry(kSpecificEntryType, StdPayload),
                           Entry(kSpecificEntryType, [StdPayload EXCEPT ![3] = 84]) >>),
            <<97, 98>>, 0) }

\* every list of entries, shown and rewritten, with and without I/O faults
StructInputs ==
    { Input(IF m = "-c" THEN 5 ELSE 3, m, GoodFile(2, es), <<97, 98>>, f) :
        m \in {"-s", "-c"}, es \in EntryLists, f \in {0, MaxFaults} }

\* a trailer_len field that is not the length of the trailer
LenDeltas == { -9, -7, -1, 1, 5, 6 }

WithTrailerLen(file, trailer_len) ==
    LET n == Len(file.tail)
    IN  [file EXCEPT !.tail =
           SubSeq(file.tail, 1, n - kInsFileSignatureLength - SizeofTrailerHeader)
             \o Enc32(trailer_len)
             \o SubSeq(file.tail, n - kInsFileSignatureLength - SizeofTrailerHeader + 4 + 1, n)]

BadLenInputs ==
    { Input(IF m = "-c" THEN 5 ELSE 3, m,
            WithTrailerLen(GoodFile(8, es), U32(TrueTrailerLen(es) + d)), <<97, 98>>, 0) :
        m \in {"-s", "-c"}, es \in EntryLists, d \in LenDeltas }
    \cup
    { Input(5, "-c", WithTrailerLen(GoodFile(8, << Entry(512, <<7>>) >>), v), <<97, 98>>, 0) :
        v \in { U32(0), U32(kInsFileMinHeaderLength - 1), U32(kInsFileMinHeaderLength),
                << Half \div 2 - 1, Half - 1 >>, << Half \div 2, 1 >>, U32Max } }

WithSignature(file, signature) ==
    [file EXCEPT !.tail =
       SubSeq(file.tail, 1, Len(file.tail) - kInsFileSignatureLength) \o signature]

BadSignatures ==
    { [kInsFileSignature EXCEPT ![1] = 57],
      [kInsFileSignature EXCEPT ![kInsFileSignatureLength] = 70],
      Zeros(kInsFileSignatureLength) }

\* the last n bytes of a file, as a file of its own
LastBytes(file, n) ==
    [media |-> 0, tail |-> SubSeq(file.tail, Len(file.tail) - n + 1, Len(file.tail))]

OneEntryFile == GoodFile(2, << Entry(kSpecificEntryType, StdPayload) >>)

\* files the locator must reject or that have no entry, and odd padding / version
LocatorInputs ==
    { Input(IF m = "-c" THEN 5 ELSE 3, m, f, <<97, 98>>, 0) :
        m \in {"-s", "-c"},
        f \in { WithSignature(OneEntryFile, sg) : sg \in BadSignatures }
              \cup { WithSignature(GoodFile(0, << >>), sg) : sg \in BadSignatures }
              \cup { LastBytes(OneEntryFile, n) :
                       n \in { 0, 1, kInsFileSignatureLength,
                               kInsFileMinHeaderLength - 1, kInsFileMinHeaderLength } }
              \cup { GoodFile(0, << >>),
                     [media |-> 1,
                      tail |-> TrailerBytes(<< Entry(kSpecificEntryType, StdPayload) >>,
                                            [k \in 1..zero_padding_size |-> 5],
                                            U32(TrueTrailerLen(<< Entry(kSpecificEntryType, StdPayload) >>)),
                                            U32(4), kInsFileSignature)] } }

\* entry lengths near 2^32: the 32-bit cursor wraps.  In the first two the
\* entry nearest the signature declares length 2^32 - 1 and a second header,
\* overlapping it, brings the cursor to trailer_len; in the third the length
\* is 2^32 - 6 and the cursor does not move.
WrapFile(type) ==
    [media |-> 4,
     tail  |-> << 0, 0, 2, 1, 0, 0, 0 >> \o << type \div 256 >> \o << 255, 255, 255, 255 >>
                 \o Zeros(zero_padding_size) \o Enc32(U32(kInsFileMinHeaderLength + 12))
                 \o Enc32(U32(3)) \o kInsFileSignature]

StuckFile ==
    [media |-> 4,
     tail  |-> Enc16(512) \o Enc32(U32Sub(U32(0), U32(SizeofEntryHeader)))
                 \o Zeros(zero_padding_size)
                 \o Enc32(U32(kInsFileMinHeaderLength + SizeofEntryHeader))
                 \o Enc32(U32(3)) \o kInsFileSignature]

WrapInputs ==
    { Input(IF m = "-c" THEN 5 ELSE 3, m, f, <<97, 98>>, 0) :
        m \in {"-s", "-c"}, f \in { WrapFile(512), WrapFile(kSpecificEntryType), StuckFile } }

\* media payloads around the copy buffer size
MediaSizes ==
    { c * kCopyBufferSize + r : c \in 0..MaxChunks, r \in {0, 1, kCopyBufferSize - 1} }

MediaInputs ==
    { Input(5, "-c", GoodFile(n, << Entry(kSpecificEntryType, StdPayload) >>), <<120>>, f) :
        n \in MediaSizes, f \in {0, MaxFaults} }

\* command lines main rejects or runs with arguments missing
CliInputs ==
    { Input(a, m, OneEntryFile, <<120>>, 0) :
        a \in 1..4, m \in {"-s", "-c", "-x"} }
    \cup { Input(6, "-s", OneEntryFile, <<120>>, 0), Input(5, "-x", OneEntryFile, <<120>>, 0) }

\* payloads shown by -s: the crafted ones, and tags that overrun the payload
ShowInputs ==
    { Input(3, "-s", GoodFile(3, << Entry(512, <<7>>), Entry(kSpecificEntryType, p) >>),
            << >>, 0) :
        p \in CraftedPayloads \cup { <<42, 9>>, Tag(10, <<83>>) \o <<42, 200, 97>> } }

Inputs ==
    PayloadInputs \cup CraftedInputs \cup StructInputs \cup BadLenInputs
      \cup LocatorInputs \cup WrapInputs \cup MediaInputs \cup CliInputs
      \cup ShowInputs

(***************************************************************************)
(* State                                                                   *)
(***************************************************************************)
VARIABLES
    argc, mode, in_file, new_offset, \* the command line and the input file
    faults_left,                     \* I/O calls the environment may still fail
    pc, ret,                         \* position in the run; main's return value at "exit"
    file, file_pos,                  \* FILE* file: "null" / "open" / "closed", its position
    file_out, out_file,              \* FILE* file_out, and the output file's content
    min_hdr,                         \* result of ins_find_and_read_minimal_header
    trailer_buf, trailer_data,       \* the malloc'ed trailer: "none" / "alloc" / "freed", bytes
    trailer_info,                    \* InsFileTrailerHeaderType
    trailer_read_pos,                \* cursor of ins_decode_trailer_data
    trailer_hdr_infos,               \* vector of decoded entries
    decoded,                         \* result of ins_decode_trailer_data
    hdr_reads,                       \* buffer offsets at which an entry header was read
    i,                               \* loop index of the entry loops
    chg,                             \* last call of ins_change_stitching_offset
    new_spec_trailer_hdr, new_spec_trailer_size,
    spec_heap,                       \* rebuilt payload buffers: allocated, freed, wild free
    file_in_size, write_pos, error, total_new_trailer_size,
    failed                           \* the I/O stages that failed during the run

vars ==
    << argc, mode, in_file, new_offset, faults_left, pc, ret, file, file_pos,
       file_out, out_file, min_hdr, trailer_buf, trailer_data, trailer_info,
       trailer_read_pos, trailer_hdr_infos, decoded, hdr_reads, i, chg,
       new_spec_trailer_hdr, new_spec_trailer_size, spec_heap, file_in_size,
       write_pos, error, total_new_trailer_size, failed >>

inputVars == << argc, mode, in_file, new_offset >>

readVars == << min_hdr, trailer_data, trailer_info >>

walkVars == << trailer_read_pos, trailer_hdr_infos, decoded, hdr_reads >>

changeVars == << chg, new_spec_trailer_hdr, new_spec_trailer_size >>

copyVars == << file_in_size, write_pos, error >>

NoChange ==
    [called |-> FALSE, base |-> 0, in_size |-> 0, oob |-> FALSE,
     res |-> [ret |-> 0, out |-> << >>, size |-> 0, overflow |-> FALSE,
              neg_tail |-> FALSE, pos |-> 0, cur |-> 0,
              dec |-> [ret |-> 0, elems |-> << >>, tail_pos |-> 0, tail_size |-> 0,
                       hdr_reads |-> << >>]]]

Init ==
    \E inp \in Inputs :
        /\ argc = inp.argc
        /\ mode = inp.mode
        /\ in_file = inp.file
        /\ new_offset = inp.new_offset
        /\ faults_left = inp.faults
        /\ pc = "main"
        /\ ret = 0
        /\ file = "null"
        /\ file_pos = 0
        /\ file_out = "null"
        /\ out_file = [exists |-> FALSE, copied |-> << >>, trailer |-> << >>]
        /\ min_hdr = [called |-> FALSE, ret |-> 0, out |-> << >>]
        /\ trailer_buf = "none"
        /\ trailer_data = << >>
        /\ trailer_info = [trailer_len |-> U32(0), trailer_version |-> U32(0)]
        /\ trailer_read_pos = U32(0)
        /\ trailer_hdr_infos = << >>
        /\ decoded = [done |-> FALSE, ret |-> 0]
        /\ hdr_reads = << >>
        /\ i = 0
        /\ chg = NoChange
        /\ new_spec_trailer_hdr = << >>
        /\ new_spec_trailer_size = 0
        /\ spec_heap = [allocs |-> 0, frees |-> 0, wild |-> FALSE]
        /\ file_in_size = 0
        /\ write_pos = 0
        /\ error = 0
        /\ total_new_trailer_size = 0
        /\ failed = {}

\* an I/O call fails only while the environment has faults left
Fault(f) == f = "none" \/ faults_left > 0

Spend(f) == faults_left' = IF f = "none" THEN faults_left ELSE faults_left - 1

(***************************************************************************)
(* main                                                                    *)
(***************************************************************************)
Main ==
    /\ pc = "main"
    /\ \/ /\ argc < 3
          /\ pc' = "exit" /\ ret' = -1
       \/ /\ argc >= 3 /\ mode = "-s"
          /\ pc' = "show_open" /\ ret' = ret
       \/ /\ argc >= 3 /\ mode = "-c"
          /\ pc' = "change_open" /\ ret' = ret
       \/ /\ argc >= 3 /\ mode \notin {"-s", "-c"}
          /\ pc' = "exit" /\ ret' = -1
    /\ UNCHANGED << inputVars, faults_left, file, file_pos, file_out, out_file,
                    readVars, trailer_buf, walkVars, i, changeVars, spec_heap,
                    copyVars, total_new_trailer_size, failed >>

\* FILE* file = fopen(param_file_in, "rb") of both runs
OpenInput ==
    /\ pc \in {"show_open", "change_open"}
    /\ \E f \in {"none", "open"} :
         /\ Fault(f) /\ Spend(f)
         /\ IF f = "open"
            THEN /\ pc' = "exit" /\ ret' = -2
                 /\ file' = file
                 /\ failed' = failed \cup {"open"}
            ELSE /\ pc' = "read" /\ ret' = ret
                 /\ file' = "open"
                 /\ failed' = failed
    /\ UNCHANGED << inputVars, file_pos, file_out, out_file, readVars, trailer_buf,
                    walkVars, i, changeVars, spec_heap, copyVars,
                    total_new_trailer_size >>

(***************************************************************************)
(* ins_find_and_read_minimal_header: f is the read that comes back short   *)
(* ("sig": the signature, "hdr": the minimal header), or "none".           *)
(***************************************************************************)
\* a comparison that stops one byte short of the signature
SignatureMatchesButLast(bytes) ==
    SubSeq(bytes, 1, kInsFileSignatureLength - 1)
        = SubSeq(kInsFileSignature, 1, kInsFileSignatureLength - 1)

SignatureMatches(bytes) == bytes = kInsFileSignature

ins_find_and_read_minimal_header(f, fault) ==
    LET file_length == FileSize(f)
    IN  IF file_length < kInsFileMinHeaderLength
        THEN [called |-> TRUE, ret |-> -1, out |-> << >>]
        ELSE IF fault = "sig"
        THEN [called |-> TRUE, ret |-> -1, out |-> << >>]
        ELSE IF ~SignatureMatches(FileRead(f, file_length - kInsFileSignatureLength,
                                           kInsFileSignatureLength))
        THEN [called |-> TRUE, ret |-> -1, out |-> << >>]
        ELSE IF fault = "hdr"
        THEN [called |-> TRUE, ret |-> -1, out |-> << >>]
        ELSE [called |-> TRUE, ret |-> 0,
              out |-> FileRead(f, file_length - kInsFileMinHeaderLength,
                               kInsFileMinHeaderLength)]

(***************************************************************************)
(* ins_read_allocate_trailer.  The file position after the seek is         *)
(* end - (int32_t)trailer_len; a seek before the start fails and leaves    *)
(* the position at the end of the file, where the last read left it.       *)
(* alloc tells whether malloc was reached.                                 *)
(***************************************************************************)
TrailerInfoOf(minimal_header) ==
    LET at == kInsFileMinHeaderLength - kInsFileSignatureLength - SizeofTrailerHeader
    IN  [trailer_len |-> LE32(minimal_header, at, 0),
         trailer_version |-> LE32(minimal_header, at + 4, 0)]

ins_read_allocate_trailer(f, fault) ==
    LET m == ins_find_and_read_minimal_header(f, fault)
    IN  IF m.ret < 0
        THEN [ret |-> -1, min |-> m, alloc |-> FALSE, data |-> << >>,
              info |-> [trailer_len |-> U32(0), trailer_version |-> U32(0)],
              pos |-> FileSize(f)]
        ELSE LET info == TrailerInfoOf(m.out)
                 back == AsInt32(info.trailer_len)
                 pos  == IF back >= 0 /\ back <= FileSize(f)
                         THEN FileSize(f) - back ELSE FileSize(f)
                 want == IF Fits(info.trailer_len) THEN Val(info.trailer_len) ELSE -1
                 got  == IF fault = "trailer" THEN 0 ELSE FileReadCount(f, pos, Max(want, 0))
             IN  IF want < 0 \/ want > got
                 THEN [ret |-> -2, min |-> m, alloc |-> TRUE, data |-> << >>,
                       info |-> info, pos |-> pos + got]
                 ELSE [ret |-> 0, min |-> m, alloc |-> TRUE,
                       data |-> FileRead(f, pos, want), info |-> info,
                       pos |-> pos + got]

\* the call in run_show_info / run_change_stitching_offset and its error branch
ReadAllocateTrailer ==
    /\ pc = "read"
    /\ \E f \in {"none", "sig", "hdr", "trailer"} :
         /\ Fault(f) /\ Spend(f)
         /\ LET r == ins_read_allocate_trailer(in_file, f)
            IN  /\ min_hdr' = r.min
                /\ file_pos' = r.pos
                /\ trailer_buf' = IF r.alloc THEN "alloc" ELSE trailer_buf
                /\ failed' = IF r.ret < 0 THEN failed \cup {"header read"} ELSE failed
                /\ IF r.ret < 0
                   THEN /\ pc' = "exit" /\ ret' = -3
                        /\ file' = IF mode = "-c" THEN "closed" ELSE file
                        /\ UNCHANGED << trailer_data, trailer_info, trailer_read_pos >>
                   ELSE /\ pc' = "decode" /\ ret' = ret
                        /\ file' = file
                        /\ trailer_data' = r.data
                        /\ trailer_info' = r.info
                        /\ trailer_read_pos' = U32(kInsFileMinHeaderLength)
    /\ UNCHANGED << inputVars, file_out, out_file, trailer_hdr_infos, decoded,
                    hdr_reads, i, changeVars, spec_heap, copyVars,
                    total_new_trailer_size >>

(***************************************************************************)
(* ins_decode_trailer_data, one action per iteration of its loop.          *)
(* A header that starts before the buffer is read partly outside it: the   *)
(* bytes outside are whatever the heap holds there (g).                    *)
(***************************************************************************)
GarbageBytes == {0, 255}

\* an offset of 2^31 or more lies beyond every buffer; it is kept as 2^30
FarOffset == Val(<< Half \div 4, 0 >>)

\* const uint8_t* trailer_data_ptr = trailer_data + trailer_len - trailer_read_pos - sizeof(hdr)
EntryHeaderOffset(trailer_len, read_pos) ==
    LET d == U32Sub(trailer_len, read_pos)
    IN  (IF Fits(d) THEN Val(d) ELSE FarOffset) - SizeofEntryHeader

\* trailer_offset_to_data: the uint32 difference, less sizeof(hdr) in 64 bits;
\* a result of 2^64 - k is the pointer offset -k
OffsetToData(trailer_len, read_pos, length) ==
    LET v == U32Sub(U32Sub(trailer_len, read_pos), length)
    IN  (IF Fits(v) THEN Val(v) ELSE FarOffset) - SizeofEntryHeader

\* trailer_read_pos += trailer_hdr->length + sizeof(InsFileTrailerEntryHeaderType)
AdvanceReadPos(read_pos, length) ==
    U32Add(read_pos, U32Add(length, U32(SizeofEntryHeader)))

DecodeStep ==
    /\ pc = "decode"
    /\ U32Lt(trailer_read_pos, trailer_info.trailer_len)
    /\ Len(trailer_hdr_infos) < MaxVector
    /\ LET off == EntryHeaderOffset(trailer_info.trailer_len, trailer_read_pos)
       IN  \E g \in GarbageBytes :
             /\ InBuf(trailer_data, off, SizeofEntryHeader) => g = 0
             /\ LET length == LE32(trailer_data, off + 2, g)
                    hdr_info ==
                      [type |-> LE16(trailer_data, off, g),
                       length |-> length,
                       trailer_offset_to_data |->
                         OffsetToData(trailer_info.trailer_len, trailer_read_pos, length)]
                IN  /\ trailer_hdr_infos' = Append(trailer_hdr_infos, hdr_info)
                    /\ trailer_read_pos' = AdvanceReadPos(trailer_read_pos, length)
                    /\ hdr_reads' = Append(hdr_reads, off)
    /\ UNCHANGED << inputVars, faults_left, pc, ret, file, file_pos, file_out,
                    out_file, readVars, trailer_buf, decoded, i, changeVars,
                    spec_heap, copyVars, total_new_trailer_size, failed >>

\* vector_push when realloc can grow the vector no further: it stores
\* through the null pointer realloc returned
DecodeExhaust ==
    /\ pc = "decode"
    /\ U32Lt(trailer_read_pos, trailer_info.trailer_len)
    /\ Len(trailer_hdr_infos) >= MaxVector
    /\ pc' = "crashed"
    /\ UNCHANGED << inputVars, faults_left, ret, file, file_pos, file_out,
                    out_file, readVars, trailer_buf, walkVars, i, changeVars,
                    spec_heap, copyVars, total_new_trailer_size, failed >>

\* the check after the loop, and the caller's error branch
DecodeEnd ==
    /\ pc = "decode"
    /\ ~U32Lt(trailer_read_pos, trailer_info.trailer_len)
    /\ IF trailer_read_pos # trailer_info.trailer_len
       THEN /\ decoded' = [done |-> TRUE, ret |-> -1]
            /\ pc' = "exit" /\ ret' = -4
            /\ trailer_buf' = "freed"
            /\ file' = IF mode = "-c" THEN "closed" ELSE file
       ELSE /\ decoded' = [done |-> TRUE, ret |-> 0]
            /\ pc' = IF mode = "-s" THEN "show" ELSE "change"
            /\ ret' = ret
            /\ UNCHANGED << trailer_buf, file >>
    /\ i' = 0
    /\ UNCHANGED << inputVars, faults_left, file_pos, file_out, out_file, readVars,
                    trailer_read_pos, trailer_hdr_infos, hdr_reads, changeVars,
                    spec_heap, copyVars, total_new_trailer_size, failed >>

(***************************************************************************)
(* Reads of the tag decoder and of its callers (which read every recorded  *)
(* tag's value and, in the mutator, the tail) that fall outside trailer    *)
(* buffer buf, for the payload at buf + base.                              *)
(***************************************************************************)
TagReadsOutside(buf, base, dec) ==
    \/ \E k \in 1..Len(dec.hdr_reads) :
         ~InBuf(buf, base + dec.hdr_reads[k], SizeofTagHeader)
    \/ \E k \in 1..Len(dec.elems) :
         ~InBuf(buf, base + dec.elems[k].data, dec.elems[k].data_size)
    \/ dec.ret >= 0 /\ ~InBuf(buf, base + dec.tail_pos, dec.tail_size)

(***************************************************************************)
(* run_show_info: the loop over the decoded entries                        *)
(***************************************************************************)
ShowStep ==
    /\ pc = "show"
    /\ i < Len(trailer_hdr_infos)
    /\ LET hdr_info == trailer_hdr_infos[i + 1]
           base == hdr_info.trailer_offset_to_data
           size == AsInt32(hdr_info.length)
           dec0 == ins_decode_trailer_specific_header(trailer_data, base, size, 0)
       IN  \/ /\ hdr_info.type # kSpecificEntryType
              /\ pc' = pc /\ ret' = ret /\ i' = i + 1
              /\ UNCHANGED trailer_buf
           \/ /\ hdr_info.type = kSpecificEntryType
              /\ \E g \in GarbageBytes :
                   /\ ~TagReadsOutside(trailer_data, base, dec0) => g = 0
                   /\ LET dec == ins_decode_trailer_specific_header(trailer_data, base, size, g)
                      IN  IF dec.ret < 0
                          THEN /\ pc' = "exit" /\ ret' = -3 /\ i' = i
                               /\ trailer_buf' = "freed"
                          ELSE /\ pc' = pc /\ ret' = ret /\ i' = i + 1
                               /\ UNCHANGED trailer_buf
           \/ /\ hdr_info.type = kSpecificEntryType
              /\ TagReadsOutside(trailer_data, base, dec0)
              /\ pc' = "crashed" /\ ret' = ret /\ i' = i
              /\ UNCHANGED trailer_buf
    /\ UNCHANGED << inputVars, faults_left, file, file_pos, file_out, out_file,
                    readVars, walkVars, changeVars, spec_heap, copyVars,
                    total_new_trailer_size, failed >>

ShowEnd ==
    /\ pc = "show"
    /\ i >= Len(trailer_hdr_infos)
    /\ pc' = "exit" /\ ret' = 0
    /\ trailer_buf' = "freed"
    /\ file' = "closed"
    /\ UNCHANGED << inputVars, faults_left, file_pos, file_out, out_file, readVars,
                    walkVars, i, changeVars, spec_heap, copyVars,
                    total_new_trailer_size, failed >>

(***************************************************************************)
(* run_change_stitching_offset: the loop that rebuilds the specific-info   *)
(* payload.  With argc = 4 param_new_offset is argv[argc], a null pointer, *)
(* and strlen of it faults; with argc = 3 it is the word after argv's      *)
(* terminator, which is read as new_offset or faults.  A store past the    *)
(* new buffer or a read outside the trailer buffer either faults or goes   *)
(* unnoticed; memcpy of a negative tail_size faults.                       *)
(***************************************************************************)
ChangeStep ==
    /\ pc = "change"
    /\ i < Len(trailer_hdr_infos)
    /\ LET hdr_info == trailer_hdr_infos[i + 1]
           base == hdr_info.trailer_offset_to_data
           size == AsInt32(hdr_info.length)
           r0   == ins_change_stitching_offset(trailer_data, base, size, new_offset, 0)
           oob  == TagReadsOutside(trailer_data, base, r0.dec)
       IN  \/ /\ hdr_info.type # kSpecificEntryType
              /\ pc' = pc /\ ret' = ret /\ i' = i + 1
              /\ UNCHANGED << changeVars, spec_heap, trailer_buf, file >>
           \/ /\ hdr_info.type = kSpecificEntryType
              /\ \E g \in GarbageBytes :
                   /\ ~oob => g = 0
                   /\ LET r == ins_change_stitching_offset(trailer_data, base, size,
                                                           new_offset, g)
                      IN  /\ r.ret = 0 => (argc # 4 /\ ~r.neg_tail)
                          /\ chg' = [called |-> TRUE, base |-> base, in_size |-> size,
                                     oob |-> oob, res |-> r]
                          /\ IF r.ret < 0
                             THEN /\ pc' = "exit" /\ ret' = -7 /\ i' = i
                                  /\ trailer_buf' = "freed"
                                  /\ file' = "closed"
                                  /\ UNCHANGED << new_spec_trailer_hdr,
                                                  new_spec_trailer_size, spec_heap >>
                             ELSE /\ pc' = pc /\ ret' = ret /\ i' = i + 1
                                  /\ new_spec_trailer_hdr' = r.out
                                  /\ new_spec_trailer_size' = r.size
                                  /\ spec_heap' = [spec_heap EXCEPT !.allocs = @ + 1]
                                  /\ UNCHANGED << trailer_buf, file >>
           \/ /\ hdr_info.type = kSpecificEntryType
              /\ \/ oob
                 \/ r0.ret = 0 /\ (argc < 5 \/ r0.overflow \/ r0.neg_tail)
              /\ pc' = "crashed" /\ ret' = ret /\ i' = i
              /\ chg' = [called |-> TRUE, base |-> base, in_size |-> size,
                         oob |-> oob, res |-> r0]
              /\ UNCHANGED << new_spec_trailer_hdr, new_spec_trailer_size, spec_heap,
                              trailer_buf, file >>
    /\ UNCHANGED << inputVars, faults_left, file_pos, file_out, out_file, readVars,
                    walkVars, copyVars, total_new_trailer_size, failed >>

\* ins_free_trailer_buffer(new_spec_trailer_hdr): the pointer is
\* uninitialized when no entry had type 0x0101
FreeSpec(h) ==
    IF h.allocs = 0 THEN [h EXCEPT !.wild = TRUE] ELSE [h EXCEPT !.frees = @ + 1]

\* get_file_size, fseek to the start, fopen(param_file_out, "wb+") and its
\* error branch.  With argc = 3 param_file_out is argv[argc], a null pointer.
OpenOutput ==
    /\ pc = "change"
    /\ i >= Len(trailer_hdr_infos)
    /\ file_in_size' = FileSize(in_file)
    /\ file_pos' = 0
    /\ write_pos' = 0
    /\ error' = 0
    /\ \/ /\ argc >= 4
          /\ faults_left' = faults_left
          /\ pc' = "copy" /\ ret' = ret
          /\ file_out' = "open"
          /\ out_file' = [exists |-> TRUE, copied |-> << >>, trailer |-> << >>]
          /\ UNCHANGED << trailer_buf, spec_heap, file, failed >>
       \/ /\ \/ argc < 4 /\ faults_left' = faults_left
             \/ argc >= 4 /\ faults_left > 0 /\ faults_left' = faults_left - 1
          /\ pc' = "exit" /\ ret' = -5
          /\ trailer_buf' = "freed"
          /\ spec_heap' = FreeSpec(spec_heap)
          /\ file' = "closed"
          /\ failed' = failed \cup {"create"}
          /\ UNCHANGED << file_out, out_file >>
       \/ /\ \/ argc < 4 /\ faults_left' = faults_left
             \/ argc >= 4 /\ faults_left > 0 /\ spec_heap.allocs = 0
                  /\ faults_left' = faults_left - 1
          /\ pc' = "crashed" /\ ret' = ret
          /\ failed' = failed \cup {"create"}
          /\ UNCHANGED << trailer_buf, spec_heap, file, file_out, out_file >>
    /\ UNCHANGED << inputVars, readVars, walkVars, i, changeVars,
                    total_new_trailer_size >>

(***************************************************************************)
(* The copy loop, one action per iteration.  File sizes of the model are   *)
(* below 2^31, so the cast to int keeps the value.                         *)
(***************************************************************************)
\* a copy loop that forgets the trailer: the bytes left up to the end of file
MediaLeftToEndOfFile == file_in_size - write_pos

MediaLeft == file_in_size - Val(trailer_info.trailer_len) - write_pos

\* int bytes_to_copy = (int)(...); if (bytes_to_copy > sizeof(copy_buffer)) ...
\* the comparison is unsigned, so a negative int is clamped too
BytesToCopy(left) == IF left < 0 \/ left > kCopyBufferSize THEN kCopyBufferSize ELSE left

\* what a short fwrite of n bytes may have written
ShortCounts(n) == {0} \cup (IF n > 1 THEN {n - 1} ELSE {})

CopyStep ==
    /\ pc = "copy"
    /\ error = 0
    /\ write_pos < file_in_size - Val(trailer_info.trailer_len)
    /\ LET bytes_to_copy == BytesToCopy(MediaLeft)
           got == FileReadCount(in_file, file_pos, bytes_to_copy)
       IN  \/ /\ got = bytes_to_copy
              /\ file_pos' = file_pos + got
              /\ out_file' = [out_file EXCEPT
                                !.copied = AppendRange(@, file_pos, bytes_to_copy)]
              /\ write_pos' = write_pos + bytes_to_copy
              /\ UNCHANGED << error, faults_left, failed >>
           \/ /\ got < bytes_to_copy \/ faults_left > 0
              /\ IF got < bytes_to_copy
                 THEN /\ file_pos' = file_pos + got
                      /\ faults_left' = faults_left
                 ELSE /\ \E n \in ShortCounts(bytes_to_copy) :
                           file_pos' = file_pos + n
                      /\ faults_left' = faults_left - 1
              /\ error' = 1
              /\ failed' = failed \cup {"copy read"}
              /\ UNCHANGED << out_file, write_pos >>
           \/ /\ got = bytes_to_copy
              /\ faults_left > 0
              /\ faults_left' = faults_left - 1
              /\ file_pos' = file_pos + got
              /\ \E n \in ShortCounts(bytes_to_copy) :
                   out_file' = [out_file EXCEPT !.copied = AppendRange(@, file_pos, n)]
              /\ error' = 1
              /\ failed' = failed \cup {"copy write"}
              /\ UNCHANGED write_pos
    /\ UNCHANGED << inputVars, pc, ret, file, file_out, readVars, trailer_buf,
                    walkVars, i, changeVars, spec_heap, file_in_size,
                    total_new_trailer_size >>

\* the end of the loop: if (error) { ... return -6; }
CopyEnd ==
    /\ pc = "copy"
    /\ error # 0 \/ ~(write_pos < file_in_size - Val(trailer_info.trailer_len))
    /\ IF error # 0
       THEN /\ pc' = "exit" /\ ret' = -6
            /\ trailer_buf' = "freed"
            /\ spec_heap' = FreeSpec(spec_heap)
            /\ file_out' = "closed"
            /\ file' = "closed"
            /\ i' = i
       ELSE /\ pc' = "rebuild" /\ ret' = ret
            /\ i' = Len(trailer_hdr_infos) - 1
            /\ UNCHANGED << trailer_buf, spec_heap, file_out, file >>
    /\ total_new_trailer_size' = 0
    /\ UNCHANGED << inputVars, faults_left, file_pos, out_file, readVars, walkVars,
                    changeVars, copyVars, failed >>

(***************************************************************************)
(* The rebuild of the trailer, one action per entry, from the last         *)
(* discovered entry to the first.  None of these fwrite calls is checked:  *)
(* a short one leaves the bytes it wrote and the run goes on.              *)
(***************************************************************************)
WriteOut(bytes) == out_file' = [out_file EXCEPT !.trailer = @ \o bytes]

\* the bytes a write of `bytes` leaves in the file when f names it as short
Written(bytes, f, me, n) == IF f = me THEN SubSeq(bytes, 1, Min(n, Len(bytes))) ELSE bytes

\* new_trailer_elem_hdr.length of the two cases of the switch
RebuiltLength(hdr_info, spec_size) ==
    IF hdr_info.type = kSpecificEntryType THEN FromInt32(spec_size) ELSE hdr_info.length

\* total_new_trailer_size += new_trailer_elem_hdr.length + sizeof(hdr), in int
AddEntrySize(total, length) ==
    AsInt32(U32Add(FromInt32(total), U32Add(length, U32(SizeofEntryHeader))))

\* the 6 bytes of new_trailer_elem_hdr
EntryHeaderBytes(type, length) == Enc16(type) \o Enc32(length)

RebuildStep ==
    /\ pc = "rebuild"
    /\ i >= 0
    /\ LET hdr_info == trailer_hdr_infos[i + 1]
           length   == RebuiltLength(hdr_info, new_spec_trailer_size)
           inside   == \/ hdr_info.type = kSpecificEntryType
                       \/ /\ Fits(hdr_info.length)
                          /\ InBuf(trailer_data, hdr_info.trailer_offset_to_data,
                                   Val(hdr_info.length))
       IN  \/ /\ inside
              /\ \E f \in {"none", "payload", "header"}, n \in {0, 1} :
                   /\ Fault(f) /\ Spend(f)
                   /\ f = "none" => n = 0
                   /\ LET payload ==
                            IF hdr_info.type = kSpecificEntryType
                            THEN new_spec_trailer_hdr
                            ELSE RdBytes(trailer_data, hdr_info.trailer_offset_to_data,
                                         Val(hdr_info.length), 0)
                          header == EntryHeaderBytes(hdr_info.type, length)
                          wrote == Written(payload, f, "payload", n)
                                     \o Written(header, f, "header", n)
                      IN  /\ WriteOut(wrote)
                          /\ failed' = IF wrote = payload \o header THEN failed
                                        ELSE failed \cup {"trailer write"}
              /\ pc' = pc
           \/ /\ ~inside
              /\ \E g \in GarbageBytes :
                   LET n == IF hdr_info.length[1] = 0 THEN hdr_info.length[2] ELSE 0
                   IN  WriteOut(RdBytes(trailer_data, hdr_info.trailer_offset_to_data, n, g)
                                  \o EntryHeaderBytes(hdr_info.type, length))
              /\ pc' = pc
              /\ UNCHANGED << faults_left, failed >>
           \/ /\ ~inside
              /\ pc' = "crashed"
              /\ UNCHANGED << out_file, faults_left, failed >>
    /\ total_new_trailer_size' =
         AddEntrySize(total_new_trailer_size,
                      RebuiltLength(trailer_hdr_infos[i + 1], new_spec_trailer_size))
    /\ i' = i - 1
    /\ UNCHANGED << inputVars, ret, file, file_pos, file_out, readVars, trailer_buf,
                    walkVars, changeVars, spec_heap, copyVars >>

\* the loop of zero_padding_size one-byte writes
WritePadding ==
    /\ pc = "rebuild"
    /\ i < 0
    /\ \E f \in {"none", "padding"} :
         /\ Fault(f) /\ Spend(f)
         /\ WriteOut(Zeros(IF f = "none" THEN zero_padding_size ELSE zero_padding_size - 1))
         /\ failed' = IF f = "none" THEN failed ELSE failed \cup {"trailer write"}
    /\ pc' = "trailer_header"
    /\ UNCHANGED << inputVars, ret, file, file_pos, file_out, readVars, trailer_buf,
                    walkVars, i, changeVars, spec_heap, copyVars,
                    total_new_trailer_size >>

\* new_trailer_hdr.trailer_len = total_new_trailer_size + kInsFileMinHeaderLength
NewTrailerLen(total) == U32Add(FromInt32(total), U32(kInsFileMinHeaderLength))

NewTrailerHeaderBytes(total, trailer_version) ==
    Enc32(NewTrailerLen(total)) \o Enc32(trailer_version)

WriteTrailerHeader ==
    /\ pc = "trailer_header"
    /\ \E f \in {"none", "trailer header"}, n \in {0, 1} :
         /\ Fault(f) /\ Spend(f)
         /\ f = "none" => n = 0
         /\ WriteOut(Written(NewTrailerHeaderBytes(total_new_trailer_size,
                                                   trailer_info.trailer_version),
                             f, "trailer header", n))
         /\ failed' = IF f = "none" THEN failed ELSE failed \cup {"trailer write"}
    /\ pc' = "signature"
    /\ UNCHANGED << inputVars, ret, file, file_pos, file_out, readVars, trailer_buf,
                    walkVars, i, changeVars, spec_heap, copyVars,
                    total_new_trailer_size >>

\* the signature write, the two frees, fflush, fclose(file_out), return 0;
\* free of the uninitialized new_spec_trailer_hdr faults or goes unnoticed
Finish ==
    /\ pc = "signature"
    /\ \E f \in {"none", "signature"}, n \in {0, 1} :
         /\ Fault(f) /\ Spend(f)
         /\ f = "none" => n = 0
         /\ WriteOut(Written(kInsFileSignature, f, "signature", n))
         /\ failed' = IF f = "none" THEN failed ELSE failed \cup {"trailer write"}
    /\ trailer_buf' = "freed"
    /\ spec_heap' = FreeSpec(spec_heap)
    /\ \/ /\ pc' = "exit" /\ ret' = 0
          /\ file_out' = "closed"
       \/ /\ spec_heap.allocs = 0
          /\ pc' = "crashed" /\ ret' = ret
          /\ file_out' = file_out
    /\ UNCHANGED << inputVars, file, file_pos, readVars, walkVars, i, changeVars,
                    copyVars, total_new_trailer_size >>

Next ==
    \/ Main
    \/ OpenInput
    \/ ReadAllocateTrailer
    \/ DecodeStep
    \/ DecodeExhaust
    \/ DecodeEnd
    \/ ShowStep
    \/ ShowEnd
    \/ ChangeStep
    \/ OpenOutput
    \/ CopyStep
    \/ CopyEnd
    \/ RebuildStep
    \/ WritePadding
    \/ WriteTrailerHeader
    \/ Finish

Spec == Init /\ [][Next]_vars

(***************************************************************************)
(* ins_decode_trailer_data as a function of a buffer: the same walk as     *)
(* DecodeStep / DecodeEnd, used to decode the trailer a run has written.   *)
(* Bytes outside the buffer read as 0; the walk gives up after MaxVector   *)
(* entries.                                                                *)
(***************************************************************************)
RECURSIVE WalkEntries(_, _, _, _)
WalkEntries(buf, trailer_len, read_pos, infos) ==
    IF ~U32Lt(read_pos, trailer_len)
    THEN [ret |-> IF read_pos # trailer_len THEN -1 ELSE 0, infos |-> infos]
    ELSE IF Len(infos) >= MaxVector
    THEN [ret |-> -1, infos |-> infos]
    ELSE LET off    == EntryHeaderOffset(trailer_len, read_pos)
             length == LE32(buf, off + 2, 0)
         IN  WalkEntries(buf, trailer_len, AdvanceReadPos(read_pos, length),
                         Append(infos,
                                [type |-> LE16(buf, off, 0), length |-> length,
                                 trailer_offset_to_data |->
                                   OffsetToData(trailer_len, read_pos, length)]))

ins_decode_trailer_data(buf, trailer_len) ==
    WalkEntries(buf, trailer_len, U32(kInsFileMinHeaderLength), << >>)

(***************************************************************************)
(* Properties                                                              *)
(***************************************************************************)
\* the run was a rewrite that returned 0 and in which no I/O call failed
RewriteDone == pc = "exit" /\ ret = 0 /\ mode = "-c" /\ failed = {}

\* the value bytes of a decoded tag of the payload at buf + base
TagValue(buf, base, elem) == RdBytes(buf, base + elem.data, elem.data_size, 0)

\* the tag decoder's result holds an offset tag whose value is v
HasOffsetValue(buf, base, dec, v) ==
    \E k \in 1..Len(dec.elems) :
        /\ dec.elems[k].type_code = kInsFileSpecificHeaderTagTypeOffset
        /\ TagValue(buf, base, dec.elems[k]) = v

HasOffsetTag(dec) ==
    \E k \in 1..Len(dec.elems) :
        dec.elems[k].type_code = kInsFileSpecificHeaderTagTypeOffset

\* the 32 padding bytes of the input trailer are zero, as the layout says
InputPaddingZero ==
    \A k \in 1..zero_padding_size :
        Rd(trailer_data, Len(trailer_data) - kInsFileMinHeaderLength + k - 1, 0) = 0

\* the trailer region the run wrote, decoded again
OutTrailerLen ==
    LE32(out_file.trailer,
         Len(out_file.trailer) - kInsFileSignatureLength - SizeofTrailerHeader, 0)

OutWalk == ins_decode_trailer_data(out_file.trailer, OutTrailerLen)

\* C1 (as claimed): Round-trip identity.  A rewrite of a trailer whose
\* specific-info entry holds an offset tag with value V, with new offset V,
\* writes a trailer region equal byte for byte to the input's.  Stated for
\* inputs whose padding is zero, as the layout prescribes.
C1_RoundTripIdentity ==
    ( /\ RewriteDone
      /\ chg.called
      /\ InputPaddingZero
      /\ HasOffsetValue(trailer_data, chg.base, chg.res.dec, new_offset) )
    => out_file.trailer = trailer_data

\* the declared lengths of the entries add up, with their 6-byte headers and
\* the 72 fixed bytes, to total (computed without wraparound)
RECURSIVE LengthsAddUp(_, _, _)
LengthsAddUp(infos, k, total) ==
    IF k > Len(infos) THEN total = 0
    ELSE /\ Fits(infos[k].length)
         /\ Val(infos[k].length) + SizeofEntryHeader <= total
         /\ LengthsAddUp(infos, k + 1,
                         total - Val(infos[k].length) - SizeofEntryHeader)

\* C2 (as claimed): Length accounting.  When the walk returns success, the
\* sum over the entries of 6 + length, plus 72, equals trailer_len; and
\* after a rewrite the written trailer_len is the number of trailer bytes
\* written, so decoding the output succeeds with the same number of entries.
C2_LengthAccounting ==
    /\ (decoded.done /\ decoded.ret = 0 /\ Fits(trailer_info.trailer_len))
         => LengthsAddUp(trailer_hdr_infos, 1,
                         Val(trailer_info.trailer_len) - kInsFileMinHeaderLength)
    /\ RewriteDone
         => /\ Fits(OutTrailerLen)
            /\ Val(OutTrailerLen) = Len(out_file.trailer)
            /\ OutWalk.ret = 0
            /\ Len(OutWalk.infos) = Len(trailer_hdr_infos)

\* C3 (as claimed): Offset replacement is exact.  After a rewrite with new
\* offset X, decoding every specific-info entry of the output yields an
\* offset tag whose data_size is the length of X and whose value is X.
C3_OffsetReplacementExact ==
    (RewriteDone /\ chg.called /\ chg.res.dec.ret >= 0)
    => /\ OutWalk.ret = 0
       /\ \E k \in 1..Len(OutWalk.infos) : OutWalk.infos[k].type = kSpecificEntryType
       /\ \A k \in 1..Len(OutWalk.infos) :
            OutWalk.infos[k].type = kSpecificEntryType
            => LET base == OutWalk.infos[k].trailer_offset_to_data
                   dec  == ins_decode_trailer_specific_header(
                               out_file.trailer, base,
                               AsInt32(OutWalk.infos[k].length), 0)
               IN  \E t \in 1..Len(dec.elems) :
                     /\ dec.elems[t].type_code = kInsFileSpecificHeaderTagTypeOffset
                     /\ dec.elems[t].data_size = Len(new_offset)
                     /\ TagValue(out_file.trailer, base, dec.elems[t]) = new_offset

\* the bytes of the payload from its first byte up to the tail, and the tail
InputTags(c) == RdBytes(trailer_data, c.base, c.res.dec.tail_pos, 0)
InputTail(c) ==
    RdBytes(trailer_data, c.base + c.res.dec.tail_pos, c.res.dec.tail_size, 0)

\* C4 (as claimed): Offset insertion.  For a payload that decodes to tags
\* none of which is an offset tag, the rebuilt payload is the original tags
\* in order, then the tag {0x2A, len(Y), Y}, then the original tail, and its
\* size is the old size + 2 + len(Y).
C4_OffsetInsertion ==
    (chg.called /\ chg.res.dec.ret >= 0 /\ ~HasOffsetTag(chg.res.dec))
    => /\ chg.res.ret = 0
       /\ chg.res.size = chg.in_size + SizeofTagHeader + Len(new_offset)
       /\ chg.res.out = InputTags(chg)
                          \o <<kInsFileSpecificHeaderTagTypeOffset, Len(new_offset)>>
                          \o new_offset \o InputTail(chg)

\* entry k of the walk declares a payload that would start before the buffer
Overshoots(k) ==
    \/ ~Fits(trailer_hdr_infos[k].length)
    \/ Val(trailer_hdr_infos[k].length) > hdr_reads[k]

\* C5 (as claimed): Trailer overshoot is an error.  When an entry's declared
\* length takes the walk past trailer_len, the walk returns failure, and
\* every entry header it read lies within the trailer buffer.
C5_OvershootIsError ==
    (\E k \in 1..Len(trailer_hdr_infos) : Overshoots(k))
    => /\ decoded.done => decoded.ret < 0
       /\ Fits(trailer_info.trailer_len)
            => \A k \in 1..Len(hdr_reads) :
                 /\ hdr_reads[k] >= 0
                 /\ hdr_reads[k] + SizeofEntryHeader <= Val(trailer_info.trailer_len)

\* C6 (as claimed): Tag decoder bounds.  A tag whose data_size exceeds the
\* bytes that remain after its 2-byte header makes the decoder fail, and no
\* tag header or tag value lies outside [0, hdr_size).
C6_TagDecoderBounds ==
    chg.called
    => LET dec == chg.res.dec
       IN  /\ \A k \in 1..Len(dec.hdr_reads) :
                 Rd(trailer_data, chg.base + dec.hdr_reads[k] + 1, 0)
                     > chg.in_size - (dec.hdr_reads[k] + SizeofTagHeader)
                 => dec.ret < 0
           /\ \A k \in 1..Len(dec.hdr_reads) :
                 /\ dec.hdr_reads[k] >= 0
                 /\ dec.hdr_reads[k] + SizeofTagHeader <= chg.in_size
           /\ \A k \in 1..Len(dec.elems) :
                 dec.elems[k].data + dec.elems[k].data_size <= chg.in_size

\* the last n bytes of the input file, read straight from the file
LastOfInput(n) ==
    [k \in 1..n |-> FileByte(in_file, FileSize(in_file) - n + k - 1)]

InputEndsWithSignature ==
    /\ FileSize(in_file) >= kInsFileSignatureLength
    /\ LastOfInput(kInsFileSignatureLength) = kInsFileSignature

\* C7: Signature rejection.  A file shorter than 72 bytes, or whose last 32
\* bytes are not the signature, makes ins_find_and_read_minimal_header fail
\* and the run return a negative code; a success means the file has at least
\* 72 bytes, ends with the signature, and the minimal header handed back is
\* exactly the last 72 bytes of the file.
C7_SignatureRejection ==
    min_hdr.called
    => /\ (FileSize(in_file) < kInsFileMinHeaderLength \/ ~InputEndsWithSignature)
            => /\ min_hdr.ret < 0
               /\ pc = "exit" /\ ret < 0
       /\ min_hdr.ret = 0
            => /\ FileSize(in_file) >= kInsFileMinHeaderLength
               /\ InputEndsWithSignature
               /\ min_hdr.out = LastOfInput(kInsFileMinHeaderLength)

\* C7 witness: a file of 72 bytes or more whose last 32 bytes differ from the
\* signature in the last byte only has been rejected.
C7_Witness ==
    /\ min_hdr.called /\ min_hdr.ret < 0 /\ pc = "exit" /\ ret < 0
    /\ FileSize(in_file) >= kInsFileMinHeaderLength
    /\ LastOfInput(kInsFileSignatureLength) # kInsFileSignature
    /\ SignatureMatchesButLast(LastOfInput(kInsFileSignatureLength))

\* the bytes of the input before its trailer, as one range of positions
MediaLength == FileSize(in_file) - Val(trailer_info.trailer_len)

WholeMedia == IF MediaLength = 0 THEN << >> ELSE << [from |-> 0, len |-> MediaLength] >>

\* C8: Payload preservation.  A rewrite writes to the output the first
\* N = file_in_size - trailer_len bytes of the input, in order, before any
\* trailer byte; the write position never exceeds N and moves in chunks of
\* kCopyBufferSize bytes, the last one shorter.  The files of the model are
\* shorter than 2^31 bytes, the range in which the int write_pos holds N.
C8_PayloadPreservation ==
    (mode = "-c" /\ out_file.exists)
    => /\ write_pos <= MediaLength
       /\ write_pos % kCopyBufferSize = 0 \/ write_pos = MediaLength
       /\ Len(out_file.copied) <= 1
       /\ \A k \in 1..Len(out_file.copied) :
            /\ out_file.copied[k].from = 0
            /\ out_file.copied[k].len <= MediaLength
       /\ (out_file.trailer # << >> \/ (pc = "exit" /\ ret = 0))
            => out_file.copied = WholeMedia

\* C8 witness: a rewrite has returned 0 on a file whose media take more
\* than two chunks, the last one partial, and the output holds all of them.
C8_Witness ==
    /\ pc = "exit" /\ ret = 0 /\ mode = "-c" /\ out_file.exists
    /\ MediaLength > 2 * kCopyBufferSize
    /\ MediaLength % kCopyBufferSize # 0
    /\ write_pos = MediaLength
    /\ out_file.copied = WholeMedia
    /\ out_file.trailer # << >>

\* the last 72 bytes a rewrite writes: padding, trailer header, signature
WrittenMinimalHeader ==
    Zeros(zero_padding_size)
      \o NewTrailerHeaderBytes(total_new_trailer_size, trailer_info.trailer_version)
      \o kInsFileSignature

\* C9 (as claimed): Failure surfaces as non-zero.  A rewrite in which the
\* open, the header read, the decode, the offset rewrite, the output open,
\* the copy or a trailer write failed returns a negative code, and a rewrite
\* that returns 0 has written the padding, trailer header and signature whole.
C9_FailureIsNonZero ==
    (pc = "exit" /\ mode = "-c" /\ argc >= 4)
    => /\ ( \/ failed # {}
            \/ (decoded.done /\ decoded.ret < 0)
            \/ (chg.called /\ chg.res.ret < 0) )
          => ret < 0
       /\ ret = 0
          => /\ Len(out_file.trailer) >= kInsFileMinHeaderLength
             /\ SubSeq(out_file.trailer,
                       Len(out_file.trailer) - kInsFileMinHeaderLength + 1,
                       Len(out_file.trailer)) = WrittenMinimalHeader

\* C10 (as claimed): Resource cleanup.  At every exit of a run the input
\* file is closed, the output file is closed if it was opened, the trailer
\* buffer is freed if it was allocated, each rebuilt specific-info buffer is
\* freed exactly once, and nothing else is handed to free.
C10_ResourceCleanup ==
    pc = "exit"
    => /\ file # "open"
       /\ file_out # "open"
       /\ trailer_buf # "alloc"
       /\ spec_heap.allocs = spec_heap.frees
       /\ ~spec_heap.wild

\* the stages of a run that have failed, told from what the run did
ArgsMalformed ==
    argc < 3 \/ mode \notin {"-s", "-c"} \/ (mode = "-c" /\ argc < 5)

FailedStages ==
    (IF ArgsMalformed THEN {"args"} ELSE {})
    \cup (IF "open" \in failed THEN {"open"} ELSE {})
    \cup (IF "header read" \in failed THEN {"header"} ELSE {})
    \cup (IF decoded.done /\ decoded.ret < 0 THEN {"entry"} ELSE {})
    \cup (IF \/ mode = "-c" /\ chg.called /\ chg.res.ret < 0
             \/ mode = "-s" /\ pc = "exit" /\ decoded.done /\ decoded.ret = 0
                  /\ i < Len(trailer_hdr_infos)
          THEN {"tag"} ELSE {})
    \cup (IF failed \cap {"copy read", "copy write"} # {} THEN {"copy"} ELSE {})
    \cup (IF "create" \in failed THEN {"create"} ELSE {})
    \cup (IF "trailer write" \in failed THEN {"trailer"} ELSE {})

\* the codes run_change_stitching_offset and main return for the six stages
StageCode ==
    [args |-> -1, open |-> -2, header |-> -3, entry |-> -4, copy |-> -6, tag |-> -7]

\* C11 (as claimed): Exit codes.  A run returns 0 exactly when no stage
\* failed, and otherwise the code of the stage that failed, one code per
\* stage (malformed arguments, open, header decode, entry decode, tag
\* decode, copy I/O) and the same in both modes; -c with fewer than 5
\* arguments returns the malformed-arguments code without starting the
\* rewrite.
C11_ExitCodes ==
    /\ (mode = "-c" /\ argc < 5)
         => /\ pc \in {"main", "exit"}
            /\ file = "null" /\ ~min_hdr.called
    /\ pc = "exit"
         => /\ ret = 0 <=> FailedStages = {}
            /\ ret <= 0
            /\ \A st \in FailedStages \cap DOMAIN StageCode : ret = StageCode[st]

\* the payload and header the rewrite owes for discovered entry k: the
\* original bytes for an entry of another type, the payload rebuilt from the
\* entry's own payload for a specific-info entry
OwnRebuilt(k) ==
    ins_change_stitching_offset(trailer_data, trailer_hdr_infos[k].trailer_offset_to_data,
                                AsInt32(trailer_hdr_infos[k].length), new_offset, 0)

ExpectedEntry(k) ==
    LET e == trailer_hdr_infos[k]
    IN  IF e.type = kSpecificEntryType
        THEN OwnRebuilt(k).out
               \o EntryHeaderBytes(e.type, FromInt32(OwnRebuilt(k).size))
        ELSE RdBytes(trailer_data, e.trailer_offset_to_data,
                     IF Fits(e.length) THEN Val(e.length) ELSE 0, 0)
               \o EntryHeaderBytes(e.type, e.length)

\* the entries in physical order: the last discovered first
ExpectedEntries ==
    Concat([j \in 1..Len(trailer_hdr_infos) |->
              ExpectedEntry(Len(trailer_hdr_infos) - j + 1)])

\* C12 (as claimed): Rebuild frame.  A rewrite of a trailer that decoded
\* into k entries writes k entries in the physical order of the input, each
\* as payload then 6-byte header; an entry of another type keeps its type,
\* length and payload bytes, a specific-info entry carries the payload
\* rebuilt from its own payload with that payload's size as length, and
\* trailer_version is copied.
C12_RebuildFrame ==
    RewriteDone
    => /\ \A k \in 1..Len(trailer_hdr_infos) :
            trailer_hdr_infos[k].type # kSpecificEntryType
            => /\ Fits(trailer_hdr_infos[k].length)
               /\ InBuf(trailer_data, trailer_hdr_infos[k].trailer_offset_to_data,
                        Val(trailer_hdr_infos[k].length))
       /\ Len(out_file.trailer) >= kInsFileMinHeaderLength
       /\ SubSeq(out_file.trailer, 1, Len(out_file.trailer) - kInsFileMinHeaderLength)
            = ExpectedEntries
       /\ LE32(out_file.trailer, Len(out_file.trailer) - kInsFileSignatureLength - 4, 0)
            = trailer_info.trailer_version

\* the bytes the recorded tags take: 2 + data_size each
RECURSIVE TagBytes(_, _)
TagBytes(elems, k) ==
    IF k > Len(elems) THEN 0
    ELSE SizeofTagHeader + elems[k].data_size + TagBytes(elems, k + 1)

\* C13 (as claimed): Tag decoder postcondition.  When
\* ins_decode_trailer_specific_header succeeds on a payload of hdr_size
\* bytes it has recorded 1 to 4 tags laid out back to back from offset 0,
\* the value of the return is their number, the tail starts right after the
\* last of them, tail_size is not negative, and the tags' bytes plus
\* tail_size make hdr_size.
C13_TagDecoderPostcondition ==
    (chg.called /\ chg.res.dec.ret >= 0)
    => LET dec == chg.res.dec
           n   == Len(dec.elems)
       IN  /\ n >= 1 /\ n <= kMaxTagsCount /\ dec.ret = n
           /\ dec.elems[1].hdr_offset = 0
           /\ \A k \in 1..n : dec.elems[k].data = dec.elems[k].hdr_offset + SizeofTagHeader
           /\ \A k \in 1..(n - 1) :
                dec.elems[k + 1].hdr_offset = dec.elems[k].data + dec.elems[k].data_size
           /\ dec.tail_pos = dec.elems[n].data + dec.elems[n].data_size
           /\ dec.tail_size >= 0
           /\ TagBytes(dec.elems, 1) + dec.tail_size = chg.in_size

\* C14 (as claimed): Entry walk termination.  Every iteration of the loop
\* of ins_decode_trailer_data leaves the 32-bit cursor trailer_read_pos
\* strictly larger, so the entries decoded never number more than
\* (trailer_len - 72) / 6.
C14_WalkTerminates ==
    /\ [](Fits(trailer_info.trailer_len)
            => Len(trailer_hdr_infos) * SizeofEntryHeader
                 <= Max(Val(trailer_info.trailer_len) - kInsFileMinHeaderLength, 0))
    /\ [][trailer_hdr_infos' # trailer_hdr_infos
            => U32Lt(trailer_read_pos, trailer_read_pos')]_vars

\* C15 (as claimed): Mutator buffer bound.  For a payload the tag decoder
\* accepts and any new offset, what ins_change_stitching_offset writes fills
\* the new buffer exactly: the write position after the tags plus tail_size
\* is new_header_size, tail_size is not negative, and no write goes past
\* the allocation.
C15_MutatorBufferBound ==
    (chg.called /\ chg.res.dec.ret >= 0)
    => /\ chg.res.pos + chg.res.dec.tail_size = chg.res.size
       /\ chg.res.dec.tail_size >= 0
       /\ ~chg.res.overflow
       /\ ~chg.res.neg_tail

=============================================================================
